---- MODULE Spec2Model ----
(***************************************************************************)
(* Inventory storage of kustomizer (pkg/inventory/storage.go): the          *)
(* inventory ConfigMap of a deployment unit, written with server-side       *)
(* apply by one field owner, read back, deleted, and diffed against the     *)
(* desired inventory to find the objects subject to pruning.                *)
(*                                                                          *)
(* Spec          one owner, one key, the clock and a foreign client         *)
(* SpecOwners    several field owners writing the record of one key         *)
(* SpecKeys      one owner, the records of two keys                         *)
(* SpecReconcile two reconcilers running rounds on one key                  *)
(***************************************************************************)
EXTENDS Integers, Sequences, FiniteSets, TLC

VARIABLES
    store,      \* the cluster's ConfigMaps: object key -> ConfigMap
    now,        \* the wall clock, in ticks
    result,     \* the last call: its arguments, what the client answered, what it returned
    lastWrite,  \* per object key, the last successful write (history variable)
    recon       \* the reconcilers that call the storage: where each is in its round

vars == <<store, now, result, lastWrite, recon>>

(***************************************************************************)
(* Bounds of the model.                                                     *)
(***************************************************************************)
MaxEntries == 2
MaxClock == 1

(***************************************************************************)
(* The finite universe the inputs are drawn from.                           *)
(***************************************************************************)
EmptyID == ""
ObjectIDs == <<"a", "b", EmptyID>>
Ids == {ObjectIDs[n] : n \in 1..Len(ObjectIDs)}
Versions == {"v1", "v2"}
Entries == {[id |-> "a", ver |-> "v1"], [id |-> "b", ver |-> "v2"],
            [id |-> EmptyID, ver |-> "v1"]}
Names == {"app"}
OtherNames == {"web"}
Namespaces == {"ns"}
Sources == {"", "s1"}
Revisions == {"", "r1"}

Range(s) == {s[n] : n \in 1..Len(s)}

(***************************************************************************)
(* Data model: Entry, a Go slice of entries (nil or not), Inventory.        *)
(***************************************************************************)
Entry == Entries

NilSlice == [isNil |-> TRUE, elems |-> <<>>]
MakeSlice(s) == [isNil |-> FALSE, elems |-> s]

SeqsUpTo(S, n) == UNION {[1..k -> S] : k \in 0..n}
UniqueIds(s) == \A p, q \in 1..Len(s) : p # q => s[p].id # s[q].id
EntrySeqs == {s \in SeqsUpTo(Entry, MaxEntries) : UniqueIds(s)}
EntrySlices == {NilSlice} \cup {MakeSlice(s) : s \in EntrySeqs}

Inventory == [Name : Names, Namespace : Namespaces, Source : Sources,
              Revision : Revisions, Entries : EntrySlices]

NewInventory(name, namespace) ==
    [Name |-> name, Namespace |-> namespace, Source |-> "", Revision |-> "",
     Entries |-> MakeSlice(<<>>)]

IdsOf(sl) == {sl.elems[n].id : n \in 1..Len(sl.elems)}

(***************************************************************************)
(* Errors.                                                                  *)
(***************************************************************************)
NoError == "nil"
ErrNotFound == "NotFound"
ErrMissingData == "inventory data not found in ConfigMap"
ErrDecoding == "json: cannot unmarshal"
ErrMalformedID == "unable to parse object id"
TransportErrors == {"connection refused", "context canceled"}
WrapDelete(err) == "failed to delete ConfigMap, error: " \o err
IsNotFound(err) == err = ErrNotFound

(***************************************************************************)
(* JSON, as token sequences: json.Marshal of []Entry and json.Unmarshal     *)
(* into a nil []Entry.                                                      *)
(***************************************************************************)
Quote(s) == "\"" \o s \o "\""
StringValues == Ids \cup Versions
IsStringToken(t) == \E s \in StringValues : Quote(s) = t
Unquote(t) == CHOOSE s \in StringValues : Quote(s) = t

MarshalEntry(e) ==
    <<"{", Quote("id"), ":", Quote(e.id), ",", Quote("ver"), ":", Quote(e.ver), "}">>
EntryTokens == Len(MarshalEntry([id |-> EmptyID, ver |-> "v1"]))

RECURSIVE MarshalElems(_)
MarshalElems(s) ==
    IF s = <<>> THEN <<>>
    ELSE IF Len(s) = 1 THEN MarshalEntry(s[1])
    ELSE MarshalEntry(s[1]) \o <<",">> \o MarshalElems(Tail(s))

\* Marshal with a nil slice encoded as an empty list
Marshal_NilAsEmptyList(sl) ==
    [err |-> NoError, data |-> <<"[">> \o MarshalElems(sl.elems) \o <<"]">>]

Marshal(sl) ==
    [err |-> NoError,
     data |-> IF sl.isNil THEN <<"null">>
              ELSE <<"[">> \o MarshalElems(sl.elems) \o <<"]">>]

IsEntryAt(t) ==
    /\ Len(t) >= EntryTokens
    /\ t[1] = "{" /\ t[2] = Quote("id") /\ t[3] = ":" /\ IsStringToken(t[4])
    /\ t[5] = "," /\ t[6] = Quote("ver") /\ t[7] = ":" /\ IsStringToken(t[8])
    /\ t[9] = "}"

DecodeOK(s) == [err |-> NoError, entries |-> MakeSlice(s)]
DecodeFail == [err |-> ErrDecoding, entries |-> NilSlice]

\* one or more objects separated by commas
RECURSIVE UnmarshalElems(_)
UnmarshalElems(t) ==
    IF ~IsEntryAt(t) THEN DecodeFail
    ELSE LET e == [id |-> Unquote(t[4]), ver |-> Unquote(t[8])]
             rest == SubSeq(t, EntryTokens + 1, Len(t))
         IN  IF rest = <<>> THEN DecodeOK(<<e>>)
             ELSE IF rest[1] # "," THEN DecodeFail
             ELSE LET more == UnmarshalElems(Tail(rest))
                  IN  IF more.err # NoError THEN DecodeFail
                      ELSE DecodeOK(<<e>> \o more.entries.elems)

Unmarshal(blob) ==
    IF blob = <<"null">> THEN [err |-> NoError, entries |-> NilSlice]
    ELSE IF Len(blob) < 2 \/ blob[1] # "[" \/ blob[Len(blob)] # "]" THEN DecodeFail
    ELSE IF Len(blob) = 2 THEN DecodeOK(<<>>)
    ELSE UnmarshalElems(SubSeq(blob, 2, Len(blob) - 1))

(***************************************************************************)
(* Diff of two inventories: the entries of the receiver whose id is not in  *)
(* the target, ordered by id; an error when an id cannot be parsed.         *)
(***************************************************************************)
Malformed(sl) == \E n \in 1..Len(sl.elems) : sl.elems[n].id = EmptyID

RECURSIVE SortByID(_, _)
SortByID(s, n) ==
    IF n > Len(ObjectIDs) THEN <<>>
    ELSE SelectSeq(s, LAMBDA e : e.id = ObjectIDs[n]) \o SortByID(s, n + 1)

Diff(inv, target) ==
    IF Malformed(inv.Entries) \/ Malformed(target.Entries)
    THEN [err |-> ErrMalformedID, objects |-> NilSlice]
    ELSE [err |-> NoError,
          objects |-> MakeSlice(SortByID(
              SelectSeq(inv.Entries.elems, LAMBDA e : e.id \notin IdsOf(target.Entries)), 1))]

(***************************************************************************)
(* The ConfigMap and the cluster's API, as the storage uses it.             *)
(***************************************************************************)
inventoryKindName == "inventory"

Owner == [Field |-> "kustomizer", Group |-> "inventory.kustomizer.dev"]
\* two more writers of the same ConfigMap: one with the group of Owner, one
\* with a group of its own
OtherOwners == {[Field |-> "kustomizer-ci", Group |-> Owner.Group],
                [Field |-> "flux", Group |-> "inventory.fluxcd.io"]}
ForeignManager == "kubectl-edit"
FieldManagers == {Owner.Field, ForeignManager} \cup {m.Field : m \in OtherOwners}

EmptyMap == [k \in {} |-> ""]
ObjectKey(name, namespace) == <<namespace, name>>
ObjectKeys == {ObjectKey(n, ns) : n \in Names \cup OtherNames, ns \in Namespaces}

\* newConfigMap naming every ConfigMap alike
newConfigMap_FixedName(m, name, namespace) ==
    [key |-> ObjectKey(inventoryKindName, namespace),
     labels |-> [k \in {"app.kubernetes.io/name", "app.kubernetes.io/component",
                        "app.kubernetes.io/created-by"} |->
                    CASE k = "app.kubernetes.io/name" -> name
                      [] k = "app.kubernetes.io/component" -> inventoryKindName
                      [] k = "app.kubernetes.io/created-by" -> m.Field],
     annotations |-> EmptyMap,
     data |-> EmptyMap]

newConfigMap(m, name, namespace) ==
    [key |-> ObjectKey(name, namespace),
     labels |-> [k \in {"app.kubernetes.io/name", "app.kubernetes.io/component",
                        "app.kubernetes.io/created-by"} |->
                    CASE k = "app.kubernetes.io/name" -> name
                      [] k = "app.kubernetes.io/component" -> inventoryKindName
                      [] k = "app.kubernetes.io/created-by" -> m.Field],
     annotations |-> EmptyMap,
     data |-> EmptyMap]

RFC3339(t) == "1970-01-01T00:00:0" \o ToString(t) \o "Z"

FieldsOf(cm) ==
    {<<"labels", k>> : k \in DOMAIN cm.labels}
        \cup {<<"annotations", k>> : k \in DOMAIN cm.annotations}
        \cup {<<"data", k>> : k \in DOMAIN cm.data}

Section(cm, name) ==
    CASE name = "labels" -> cm.labels
      [] name = "annotations" -> cm.annotations
      [] name = "data" -> cm.data

HasField(cm, p) == p[2] \in DOMAIN Section(cm, p[1])
SameField(a, b, p) ==
    /\ HasField(a, p) /\ HasField(b, p)
    /\ Section(a, p[1])[p[2]] = Section(b, p[1])[p[2]]

\* a patch that merges what the manager sent into the object and removes nothing
ServerSideApply_NoRemoval(st, cm, manager) ==
    IF cm.key \notin DOMAIN st
    THEN [labels |-> cm.labels, annotations |-> cm.annotations, data |-> cm.data,
          managedFields |-> [f \in FieldManagers |->
                                IF f = manager THEN FieldsOf(cm) ELSE {}]]
    ELSE LET old == st[cm.key]
             Merge(name) ==
                 LET o == Section(old, name)
                     c == Section(cm, name)
                 IN  [k \in DOMAIN o \cup DOMAIN c |-> IF k \in DOMAIN c THEN c[k] ELSE o[k]]
         IN  [labels |-> Merge("labels"), annotations |-> Merge("annotations"),
              data |-> Merge("data"),
              managedFields |-> [f \in FieldManagers |->
                  IF f = manager THEN old.managedFields[f] \cup FieldsOf(cm)
                  ELSE {p \in old.managedFields[f] :
                            p \in FieldsOf(cm) => SameField(old, cm, p)}]]

\* a write that replaces the whole object with what the manager sent
ServerSideApply_Replace(st, cm, manager) ==
    [labels |-> cm.labels, annotations |-> cm.annotations, data |-> cm.data,
     managedFields |-> [f \in FieldManagers |-> IF f = manager THEN FieldsOf(cm) ELSE {}]]

\* client.Apply with ForceOwnership under one field manager
ServerSideApply(st, cm, manager) ==
    IF cm.key \notin DOMAIN st
    THEN [labels |-> cm.labels, annotations |-> cm.annotations, data |-> cm.data,
          managedFields |-> [f \in FieldManagers |->
                                IF f = manager THEN FieldsOf(cm) ELSE {}]]
    ELSE LET old == st[cm.key]
             others == UNION {old.managedFields[f] : f \in FieldManagers \ {manager}}
             dropped == (old.managedFields[manager] \ FieldsOf(cm)) \ others
             Merge(name) ==
                 LET o == Section(old, name)
                     c == Section(cm, name)
                     keep == {k \in DOMAIN o : <<name, k>> \notin dropped}
                 IN  [k \in keep \cup DOMAIN c |-> IF k \in DOMAIN c THEN c[k] ELSE o[k]]
         IN  [labels |-> Merge("labels"), annotations |-> Merge("annotations"),
              data |-> Merge("data"),
              managedFields |-> [f \in FieldManagers |->
                  IF f = manager THEN FieldsOf(cm)
                  ELSE {p \in old.managedFields[f] :
                            p \in FieldsOf(cm) => SameField(old, cm, p)}]]

ClientPatch(st, cm, manager) ==
    [k \in DOMAIN st \cup {cm.key} |->
        IF k = cm.key THEN ServerSideApply(st, cm, manager) ELSE st[k]]

ClientGetError(st, key) == IF key \in DOMAIN st THEN NoError ELSE ErrNotFound
ClientDeleteError(st, key) == IF key \in DOMAIN st THEN NoError ELSE ErrNotFound
ClientDelete(st, key) == [k \in DOMAIN st \ {key} |-> st[k]]

\* what one round trip to the API server can answer: the server's answer, or
\* a transport error with no effect
Answers(serverErr) == {serverErr} \cup TransportErrors

(***************************************************************************)
(* The storage's four operations, each as a function of the client's        *)
(* answer, and the calls that make them.                                    *)
(***************************************************************************)
Owners == {Owner}
KeyOf(i) == ObjectKey(i.Name, i.Namespace)
Exists(key) == key \in DOMAIN store

\* AppliedConfigMap with the data left out when there are no entries
AppliedConfigMap_SkipEmpty(m, i, t) ==
    LET cm == newConfigMap(m, i.Name, i.Namespace)
        keys == {m.Group \o "/last-applied-time"}
                    \cup (IF i.Source # "" THEN {m.Group \o "/source"} ELSE {})
                    \cup (IF i.Revision # "" THEN {m.Group \o "/revision"} ELSE {})
    IN  [cm EXCEPT
            !.annotations = [k \in keys |->
                CASE k = m.Group \o "/last-applied-time" -> RFC3339(t)
                  [] k = m.Group \o "/source" -> i.Source
                  [] k = m.Group \o "/revision" -> i.Revision],
            !.data = IF Len(i.Entries.elems) = 0 THEN EmptyMap
                     ELSE [k \in {inventoryKindName} |-> Marshal(i.Entries).data]]

\* the object ApplyInventory sends
AppliedConfigMap(m, i, t) ==
    LET cm == newConfigMap(m, i.Name, i.Namespace)
        keys == {m.Group \o "/last-applied-time"}
                    \cup (IF i.Source # "" THEN {m.Group \o "/source"} ELSE {})
                    \cup (IF i.Revision # "" THEN {m.Group \o "/revision"} ELSE {})
    IN  [cm EXCEPT
            !.annotations = [k \in keys |->
                CASE k = m.Group \o "/last-applied-time" -> RFC3339(t)
                  [] k = m.Group \o "/source" -> i.Source
                  [] k = m.Group \o "/revision" -> i.Revision],
            !.data = [k \in {inventoryKindName} |-> Marshal(i.Entries).data]]

\* the source and revision of an inventory set from a ConfigMap's annotations
WithAnnotations(m, i, ann) ==
    [i EXCEPT !.Source = IF m.Group \o "/source" \in DOMAIN ann
                         THEN ann[m.Group \o "/source"] ELSE @,
              !.Revision = IF m.Group \o "/revision" \in DOMAIN ann
                           THEN ann[m.Group \o "/revision"] ELSE @]

\* GetInventory decoding straight into the inventory's entries
GetInventoryResult_DecodeInPlace(m, i, getErr, st) ==
    IF getErr # NoError THEN [err |-> getErr, inv |-> i]
    ELSE LET cm == st[KeyOf(i)]
         IN  IF inventoryKindName \notin DOMAIN cm.data
             THEN [err |-> ErrMissingData, inv |-> i]
             ELSE LET dec == Unmarshal(cm.data[inventoryKindName])
                  IN  IF dec.err # NoError
                      THEN [err |-> dec.err, inv |-> [i EXCEPT !.Entries = dec.entries]]
                      ELSE [err |-> NoError,
                            inv |-> WithAnnotations(m, [i EXCEPT !.Entries = dec.entries],
                                                    cm.annotations)]

\* GetInventory without the check that the data holds the inventory key (a
\* missing key reads as the empty string)
GetInventoryResult_NoKeyCheck(m, i, getErr, st) ==
    IF getErr # NoError THEN [err |-> getErr, inv |-> i]
    ELSE LET cm == st[KeyOf(i)]
             dec == Unmarshal(IF inventoryKindName \in DOMAIN cm.data
                              THEN cm.data[inventoryKindName] ELSE <<>>)
         IN  IF dec.err # NoError THEN [err |-> dec.err, inv |-> i]
             ELSE [err |-> NoError,
                   inv |-> WithAnnotations(m, [i EXCEPT !.Entries = dec.entries],
                                           cm.annotations)]

\* GetInventory reading the annotations before it looks at the data
GetInventoryResult_AnnotationsFirst(m, i, getErr, st) ==
    IF getErr # NoError THEN [err |-> getErr, inv |-> i]
    ELSE LET cm == st[KeyOf(i)]
             j == WithAnnotations(m, i, cm.annotations)
         IN  IF inventoryKindName \notin DOMAIN cm.data
             THEN [err |-> ErrMissingData, inv |-> j]
             ELSE LET dec == Unmarshal(cm.data[inventoryKindName])
                  IN  IF dec.err # NoError THEN [err |-> dec.err, inv |-> j]
                      ELSE [err |-> NoError, inv |-> [j EXCEPT !.Entries = dec.entries]]

\* GetInventory setting source and revision to "" when the annotation is absent
GetInventoryResult_ResetAbsent(m, i, getErr, st) ==
    IF getErr # NoError THEN [err |-> getErr, inv |-> i]
    ELSE LET cm == st[KeyOf(i)]
         IN  IF inventoryKindName \notin DOMAIN cm.data
             THEN [err |-> ErrMissingData, inv |-> i]
             ELSE LET dec == Unmarshal(cm.data[inventoryKindName])
                  IN  IF dec.err # NoError THEN [err |-> dec.err, inv |-> i]
                      ELSE [err |-> NoError,
                            inv |-> WithAnnotations(m,
                                [i EXCEPT !.Entries = dec.entries,
                                          !.Source = "", !.Revision = ""],
                                cm.annotations)]

\* GetInventory, given what client.Get answered: the error returned and the
\* inventory as the call leaves it
GetInventoryResult(m, i, getErr, st) ==
    IF getErr # NoError THEN [err |-> getErr, inv |-> i]
    ELSE LET cm == st[KeyOf(i)]
         IN  IF inventoryKindName \notin DOMAIN cm.data
             THEN [err |-> ErrMissingData, inv |-> i]
             ELSE LET dec == Unmarshal(cm.data[inventoryKindName])
                  IN  IF dec.err # NoError THEN [err |-> dec.err, inv |-> i]
                      ELSE [err |-> NoError,
                            inv |-> WithAnnotations(m, [i EXCEPT !.Entries = dec.entries],
                                                    cm.annotations)]

\* DeleteInventory returning every error of the client, NotFound too
DeleteInventoryError_NotFoundReturned(err) ==
    IF err # NoError THEN WrapDelete(err) ELSE NoError

\* DeleteInventory's return value, given what client.Delete answered
DeleteInventoryError(err) ==
    IF err # NoError /\ ~IsNotFound(err) THEN WrapDelete(err) ELSE NoError

\* GetInventoryStaleObjects loading the record into the desired inventory itself
StaleObjectsResult_LoadIntoDesired(m, i, getErr, st) ==
    LET got == GetInventoryResult(m, i, getErr, st)
    IN  IF got.err # NoError
        THEN IF IsNotFound(got.err)
             THEN [err |-> NoError, objects |-> MakeSlice(<<>>), inv |-> got.inv]
             ELSE [err |-> got.err, objects |-> NilSlice, inv |-> got.inv]
        ELSE LET d == Diff(got.inv, got.inv)
             IN  IF d.err # NoError THEN [err |-> d.err, objects |-> NilSlice, inv |-> got.inv]
                 ELSE [err |-> NoError, objects |-> d.objects, inv |-> got.inv]

\* GetInventoryStaleObjects with receiver and argument of Diff exchanged
StaleObjectsResult_DiffSwapped(m, i, getErr, st) ==
    LET existingInventory == NewInventory(i.Name, i.Namespace)
        got == GetInventoryResult(m, existingInventory, getErr, st)
    IN  IF got.err # NoError
        THEN IF IsNotFound(got.err)
             THEN [err |-> NoError, objects |-> MakeSlice(<<>>), inv |-> i]
             ELSE [err |-> got.err, objects |-> NilSlice, inv |-> i]
        ELSE LET d == Diff(i, got.inv)
             IN  IF d.err # NoError THEN [err |-> d.err, objects |-> NilSlice, inv |-> i]
                 ELSE [err |-> NoError, objects |-> d.objects, inv |-> i]

\* GetInventoryStaleObjects returning NotFound like any other error
StaleObjectsResult_NoRecovery(m, i, getErr, st) ==
    LET existingInventory == NewInventory(i.Name, i.Namespace)
        got == GetInventoryResult(m, existingInventory, getErr, st)
    IN  IF got.err # NoError
        THEN [err |-> got.err, objects |-> NilSlice, inv |-> i]
        ELSE LET d == Diff(got.inv, i)
             IN  IF d.err # NoError THEN [err |-> d.err, objects |-> NilSlice, inv |-> i]
                 ELSE [err |-> NoError, objects |-> d.objects, inv |-> i]

\* GetInventoryStaleObjects taking every error of GetInventory for a first apply
StaleObjectsResult_RecoverAll(m, i, getErr, st) ==
    LET existingInventory == NewInventory(i.Name, i.Namespace)
        got == GetInventoryResult(m, existingInventory, getErr, st)
    IN  IF got.err # NoError
        THEN [err |-> NoError, objects |-> MakeSlice(<<>>), inv |-> i]
        ELSE LET d == Diff(got.inv, i)
             IN  IF d.err # NoError THEN [err |-> d.err, objects |-> NilSlice, inv |-> i]
                 ELSE [err |-> NoError, objects |-> d.objects, inv |-> i]

\* GetInventoryStaleObjects, given what client.Get answered: the error and the
\* list returned, and the desired inventory as the call leaves it
StaleObjectsResult(m, i, getErr, st) ==
    LET existingInventory == NewInventory(i.Name, i.Namespace)
        got == GetInventoryResult(m, existingInventory, getErr, st)
    IN  IF got.err # NoError
        THEN IF IsNotFound(got.err)
             THEN [err |-> NoError, objects |-> MakeSlice(<<>>), inv |-> i]
             ELSE [err |-> got.err, objects |-> NilSlice, inv |-> i]
        ELSE LET d == Diff(got.inv, i)
             IN  IF d.err # NoError THEN [err |-> d.err, objects |-> NilSlice, inv |-> i]
                 ELSE [err |-> NoError, objects |-> d.objects, inv |-> i]

\* ApplyInventory wrapping the error of the client, as DeleteInventory does
ApplyInventoryError_Wrapped(encErr, clientErr) ==
    IF encErr # NoError THEN encErr
    ELSE IF clientErr # NoError THEN "failed to apply ConfigMap, error: " \o clientErr
    ELSE NoError

\* ApplyInventory's return value, given what json.Marshal and client.Patch answered
ApplyInventoryError(encErr, clientErr) ==
    IF encErr # NoError THEN encErr ELSE clientErr

NoWrite == [kind |-> "none", inv |-> NewInventory("", ""), time |-> ""]

\* the record of a call: the inventory passed (arg) and as the call left it (inv)
Call(op, m, i, clientErr, err, inv, objects) ==
    [op |-> op, owner |-> m, key |-> KeyOf(i), arg |-> i, existed |-> Exists(KeyOf(i)),
     clientErr |-> clientErr, err |-> err, inv |-> inv, objects |-> objects]

ApplyInventory(m, i) ==
    \E clientErr \in Answers(NoError) :
        LET enc == Marshal(i.Entries)
            cm == AppliedConfigMap(m, i, now)
            sent == enc.err = NoError
            err == ApplyInventoryError(enc.err, clientErr)
        IN  /\ store' = IF err = NoError THEN ClientPatch(store, cm, m.Field) ELSE store
            /\ lastWrite' = IF err = NoError
                            THEN [lastWrite EXCEPT ![KeyOf(i)] =
                                     [kind |-> "apply", inv |-> i, time |-> RFC3339(now)]]
                            ELSE lastWrite
            /\ result' = Call("ApplyInventory", m, NewInventory(i.Name, i.Namespace),
                              IF sent THEN clientErr ELSE NoError, err,
                              NewInventory(i.Name, i.Namespace), NilSlice)
            /\ UNCHANGED now

GetInventory(m, i) ==
    \E clientErr \in Answers(ClientGetError(store, KeyOf(i))) :
        LET got == GetInventoryResult(m, i, clientErr, store)
        IN  /\ result' = Call("GetInventory", m, i, clientErr, got.err, got.inv, NilSlice)
            /\ UNCHANGED <<store, now, lastWrite>>

DeleteInventory(m, i) ==
    \E clientErr \in Answers(ClientDeleteError(store, KeyOf(i))) :
        /\ store' = IF clientErr = NoError THEN ClientDelete(store, KeyOf(i)) ELSE store
        /\ lastWrite' = IF clientErr = NoError
                        THEN [lastWrite EXCEPT ![KeyOf(i)] =
                                 [NoWrite EXCEPT !.kind = "delete"]]
                        ELSE lastWrite
        /\ result' = Call("DeleteInventory", m, i, clientErr,
                          DeleteInventoryError(clientErr), i, NilSlice)
        /\ UNCHANGED now

GetInventoryStaleObjects(m, i) ==
    \E clientErr \in Answers(ClientGetError(store, KeyOf(i))) :
        LET r == StaleObjectsResult(m, i, clientErr, store)
        IN  /\ result' = Call("GetInventoryStaleObjects", m, i, clientErr, r.err, r.inv,
                              r.objects)
            /\ UNCHANGED <<store, now, lastWrite>>

(***************************************************************************)
(* The environment: time passes, and another client of the cluster (not a   *)
(* field owner of the inventory) replaces the ConfigMap's data.             *)
(***************************************************************************)
NoCall == [op |-> "none", owner |-> Owner, key |-> ObjectKey("", ""), arg |-> NewInventory("", ""), existed |-> FALSE,
           clientErr |-> NoError, err |-> NoError,
           inv |-> NewInventory("", ""), objects |-> NilSlice]

Tick ==
    /\ now < MaxClock
    /\ now' = now + 1
    /\ result' = NoCall
    /\ UNCHANGED <<store, lastWrite>>

\* blobs that are not a JSON list of entries: the empty string, an object, a
\* truncated list, a string, a list with a trailing comma
InvalidBlobs ==
    {<<>>, <<"{", "}">>, <<"[">>, <<Quote("a")>>,
     <<"[">> \o MarshalEntry([id |-> "a", ver |-> "v1"]) \o <<",", "]">>}
ForeignBlobs ==
    InvalidBlobs \cup {<<"[">> \o MarshalEntry([id |-> "b", ver |-> "v1"]) \o <<"]">>}
ForeignData == {EmptyMap} \cup {[k \in {inventoryKindName} |-> b] : b \in ForeignBlobs}

ClientUpdateData(st, key, data, manager) ==
    LET old == st[key]
        changed == {<<"data", k>> : k \in {k \in DOMAIN old.data \cup DOMAIN data :
                        ~(k \in DOMAIN old.data /\ k \in DOMAIN data /\ old.data[k] = data[k])}}
    IN  [st EXCEPT ![key] = [old EXCEPT
            !.data = data,
            !.managedFields = [f \in FieldManagers |->
                IF f = manager
                THEN (old.managedFields[f] \ changed)
                         \cup {p \in changed : p[2] \in DOMAIN data}
                ELSE old.managedFields[f] \ changed]]]

ForeignUpdate(key, data) ==
    /\ Exists(key)
    /\ store[key].data # data
    /\ store' = ClientUpdateData(store, key, data, ForeignManager)
    /\ lastWrite' = [lastWrite EXCEPT ![key] = [NoWrite EXCEPT !.kind = "foreign"]]
    /\ result' = NoCall
    /\ UNCHANGED now

(***************************************************************************)
(* The reconcilers, callers of the storage.  A round: build the desired     *)
(* inventory from the objects just applied to the cluster, ask for the      *)
(* stale objects and delete exactly those, then save the desired inventory. *)
(* A round whose call fails is abandoned.  When `serial`, rounds on a key   *)
(* run one at a time.                                                       *)
(***************************************************************************)
Reconcilers == {"r1", "r2"}

NoRound == [who |-> "none", desired |-> NewInventory("", ""), stale |-> {}, prev |-> {}]

IdleRecon(serial) ==
    [serial |-> serial,
     pc |-> [r \in Reconcilers |-> "idle"],
     round |-> [r \in Reconcilers |-> NoRound],  \* the round r is in
     done |-> NoRound,                           \* the round completed by the last step
     lost |-> {},            \* ids dropped from the record and returned as stale to no one
     live |-> {},            \* ids of the objects in the cluster, while no call has failed
     failed |-> FALSE]       \* some call of some round failed

\* the ids the record of a key holds
PersistedIds(st, key) ==
    IF key \in DOMAIN st /\ inventoryKindName \in DOMAIN st[key].data
    THEN IdsOf(Unmarshal(st[key].data[inventoryKindName]).entries)
    ELSE {}

Abandoned == [recon EXCEPT !.failed = TRUE, !.live = {}, !.done = NoRound]

\* the first half of a round: desired is built from the objects just applied,
\* the stale objects are asked for and deleted
QueryStale(r, i) ==
    /\ recon.pc[r] = "idle"
    /\ recon.serial => \A q \in Reconcilers : recon.pc[q] = "idle"
    /\ GetInventoryStaleObjects(Owner, i)
    /\ recon' = IF result'.err # NoError THEN Abandoned
                ELSE [recon EXCEPT
                         !.pc[r] = "save",
                         !.round[r] = [who |-> r, desired |-> i,
                                       stale |-> IdsOf(result'.objects),
                                       prev |-> PersistedIds(store, KeyOf(i))],
                         !.done = NoRound,
                         !.live = IF recon.failed THEN {}
                                  ELSE (@ \cup IdsOf(i.Entries)) \ IdsOf(result'.objects)]

\* the second half of a round: the desired inventory is saved
SaveDesired(r) ==
    /\ recon.pc[r] = "save"
    /\ ApplyInventory(Owner, recon.round[r].desired)
    /\ recon' = IF result'.err # NoError
                THEN [Abandoned EXCEPT !.pc[r] = "idle", !.round[r] = NoRound]
                ELSE [recon EXCEPT
                         !.pc[r] = "idle",
                         !.round[r] = NoRound,
                         !.done = recon.round[r],
                         !.lost = @ \cup
                             ((PersistedIds(store, KeyOf(recon.round[r].desired))
                                  \ IdsOf(recon.round[r].desired.Entries))
                              \ UNION {recon.round[q].stale : q \in Reconcilers})]

Init ==
    /\ store = [k \in {} |-> NoCall]
    /\ now = 0
    /\ result = NoCall
    /\ lastWrite = [k \in ObjectKeys |-> NoWrite]
    /\ recon = IdleRecon(TRUE)

\* the inventories the callers pass.  To ApplyInventory: every entry list with
\* one provenance, and every provenance with a nil and with a one-entry list
\* (entries go to the data, source and revision to the annotations).  To
\* GetInventory: a fresh or a used one.  To GetInventoryStaleObjects: the
\* desired one.
ApplyArgs ==
    {i \in Inventory :
        \/ i.Source = "s1" /\ i.Revision = "r1"
        \/ i.Entries \in {NilSlice, MakeSlice(<<[id |-> "a", ver |-> "v1"]>>)}}
GetArgs == {NewInventory(n, ns) : n \in Names, ns \in Namespaces}
               \cup {[NewInventory(n, ns) EXCEPT
                         !.Source = "s0",
                         !.Entries = MakeSlice(<<[id |-> "b", ver |-> "v1"]>>)] :
                     n \in Names, ns \in Namespaces}
DeleteArgs == {NewInventory(n, ns) : n \in Names, ns \in Namespaces}
StaleArgs == {i \in Inventory : i.Source = "s1" /\ i.Revision = "r1"}

Next ==
    \/ \E m \in Owners, i \in ApplyArgs : ApplyInventory(m, i) /\ UNCHANGED recon
    \/ \E m \in Owners, i \in GetArgs : GetInventory(m, i) /\ UNCHANGED recon
    \/ \E m \in Owners, i \in DeleteArgs : DeleteInventory(m, i) /\ UNCHANGED recon
    \/ \E m \in Owners, i \in StaleArgs : GetInventoryStaleObjects(m, i) /\ UNCHANGED recon
    \/ Tick /\ UNCHANGED recon
    \/ \E key \in ObjectKeys, data \in ForeignData :
           ForeignUpdate(key, data) /\ UNCHANGED recon

Spec == Init /\ [][Next]_vars

(***************************************************************************)
(* Several field owners writing the record of one key.                      *)
(***************************************************************************)
AllOwners == Owners \cup OtherOwners
OwnersApplyArgs ==
    {[NewInventory(n, ns) EXCEPT
         !.Source = s,
         !.Entries = MakeSlice(<<[id |-> "a", ver |-> IF s = "s2" THEN "v2" ELSE "v1"]>>)] :
        n \in Names, ns \in Namespaces, s \in {"", "s1", "s2"}}

NextOwners ==
    \/ \E m \in AllOwners, i \in OwnersApplyArgs : ApplyInventory(m, i) /\ UNCHANGED recon
    \/ \E m \in Owners, i \in DeleteArgs : DeleteInventory(m, i) /\ UNCHANGED recon
    \/ Tick /\ UNCHANGED recon

SpecOwners == Init /\ [][NextOwners]_vars

(***************************************************************************)
(* One field owner and the records of two keys.                             *)
(***************************************************************************)
AllNames == Names \cup OtherNames
KeysApplyArgs ==
    {[NewInventory(n, ns) EXCEPT !.Source = s, !.Entries = MakeSlice(<<e>>)] :
        n \in AllNames, ns \in Namespaces, s \in Sources,
        e \in {[id |-> "a", ver |-> "v1"], [id |-> "b", ver |-> "v2"]}}
KeysGetArgs == {NewInventory(n, ns) : n \in AllNames, ns \in Namespaces}
KeysStaleArgs ==
    {[NewInventory(n, ns) EXCEPT
         !.Source = "s1", !.Entries = MakeSlice(<<[id |-> "a", ver |-> "v1"]>>)] :
        n \in AllNames, ns \in Namespaces}

NextKeys ==
    \/ \E m \in Owners, i \in KeysApplyArgs : ApplyInventory(m, i) /\ UNCHANGED recon
    \/ \E m \in Owners, i \in KeysGetArgs : GetInventory(m, i) /\ UNCHANGED recon
    \/ \E m \in Owners, i \in KeysGetArgs : DeleteInventory(m, i) /\ UNCHANGED recon
    \/ \E m \in Owners, i \in KeysStaleArgs :
           GetInventoryStaleObjects(m, i) /\ UNCHANGED recon

SpecKeys == Init /\ [][NextKeys]_vars

(***************************************************************************)
(* Two reconcilers of one key, their rounds serialized or not.              *)
(***************************************************************************)
DesiredArgs ==
    {i \in StaleArgs :
        i.Entries \in {NilSlice, MakeSlice(<<[id |-> "a", ver |-> "v1"]>>),
                       MakeSlice(<<[id |-> "b", ver |-> "v2"]>>),
                       MakeSlice(<<[id |-> "b", ver |-> "v2"], [id |-> "a", ver |-> "v1"]>>),
                       MakeSlice(<<[id |-> EmptyID, ver |-> "v1"]>>)}}

InitReconcile ==
    /\ store = [k \in {} |-> NoCall]
    /\ now = 0
    /\ result = NoCall
    /\ lastWrite = [k \in ObjectKeys |-> NoWrite]
    /\ recon \in {IdleRecon(serial) : serial \in BOOLEAN}

NextReconcile ==
    \/ \E r \in Reconcilers, i \in DesiredArgs : QueryStale(r, i)
    \/ \E r \in Reconcilers : SaveDesired(r)

SpecReconcile == InitReconcile /\ [][NextReconcile]_vars

(***************************************************************************)
(* Properties.  A call's record is in `result` in the state the call        *)
(* leaves; `lastWrite` tells which write the record of a key comes from.    *)
(***************************************************************************)
Answered == result.clientErr \notin TransportErrors
Applied(key) == lastWrite[key].kind = "apply"
AsSet(sl) == Range(sl.elems)
NoDuplicates(sl) == Cardinality(AsSet(sl)) = Len(sl.elems)
StaleCall == result.op = "GetInventoryStaleObjects"
GetCall == result.op = "GetInventory"
DeleteCall == result.op = "DeleteInventory"
ApplyCall == result.op = "ApplyInventory"
Fresh(i) == i = NewInventory(i.Name, i.Namespace)
SourceKey == result.owner.Group \o "/source"
RevisionKey == result.owner.Group \o "/revision"
TimeKey(m) == m.Group \o "/last-applied-time"

\* the entries of I1 whose id does not appear in I2
ExpectedStale(i1, i2) == {e \in AsSet(i1.Entries) : e.id \notin IdsOf(i2.Entries)}
WellFormedPair(i1, i2) == ~Malformed(i1.Entries) /\ ~Malformed(i2.Entries)

\* C1 as stated: when the record of the key was last written by a successful
\* Apply(I1) and the read is answered, GetStaleObjects(I2) returns, without
\* error, exactly the entries of I1 whose id is not in I2 -- for every I1, I2.
C1_StaleExactly_AsStated ==
    (StaleCall /\ Applied(result.key) /\ Answered) =>
        /\ result.err = NoError
        /\ ~result.objects.isNil
        /\ AsSet(result.objects) = ExpectedStale(lastWrite[result.key].inv, result.arg)

\* C1 amended: the same, for I1 and I2 in which every entry's id is well formed
\* (not empty); when an id of I1 or I2 is malformed the call returns the error
\* of Diff and no list.
C1_StaleExactly ==
    (StaleCall /\ Applied(result.key) /\ Answered) =>
        LET i1 == lastWrite[result.key].inv
            i2 == result.arg
        IN  IF WellFormedPair(i1, i2)
            THEN /\ result.err = NoError
                 /\ ~result.objects.isNil
                 /\ NoDuplicates(result.objects)
                 /\ AsSet(result.objects) = ExpectedStale(i1, i2)
            ELSE /\ result.err = ErrMalformedID
                 /\ result.objects = NilSlice

\* C1's case: of two applied entries, one is still desired and one is stale.
C1_Witness ==
    /\ StaleCall /\ Applied(result.key) /\ result.err = NoError
    /\ Len(lastWrite[result.key].inv.Entries.elems) = 2
    /\ Len(result.arg.Entries.elems) = 1
    /\ Len(result.objects.elems) = 1

\* C2: round trip -- a Get into a fresh inventory, answered by the cluster,
\* of a record last written by a successful Apply(I) succeeds and yields the
\* entries, source and revision of I.
C2_RoundTrip ==
    (GetCall /\ Fresh(result.arg) /\ Applied(result.key) /\ Answered) =>
        LET i == lastWrite[result.key].inv
        IN  /\ result.err = NoError
            /\ result.inv.Entries = i.Entries
            /\ result.inv.Source = i.Source
            /\ result.inv.Revision = i.Revision

\* C2's case: the inventory read back has a nil entry list and no source.
C2_Witness ==
    /\ GetCall /\ Fresh(result.arg) /\ Applied(result.key) /\ result.err = NoError
    /\ lastWrite[result.key].inv.Entries.isNil
    /\ lastWrite[result.key].inv.Source = ""
    /\ lastWrite[result.key].inv.Revision = "r1"

\* C3: GetStaleObjects on a key with no record (never applied, or deleted),
\* answered by the cluster, returns the empty list and no error, whatever the
\* desired entries.
C3_NoRecordNothingStale ==
    (StaleCall /\ ~result.existed /\ Answered) =>
        /\ result.err = NoError
        /\ result.objects = MakeSlice(<<>>)

\* C3's case: the record was deleted, and the desired inventory holds entries
\* (one of them malformed).
C3_Witness ==
    /\ StaleCall /\ ~result.existed /\ result.err = NoError
    /\ lastWrite[result.key].kind = "delete"
    /\ Malformed(result.arg.Entries)
    /\ Len(result.arg.Entries.elems) = 2

\* C4: GetStaleObjects recovers NotFound only -- on a transport error, a record
\* without the blob key, or a blob that does not decode, it returns that error
\* and no list.
C4_OtherErrorsPropagate ==
    StaleCall =>
        /\ ~Answered => (result.err = result.clientErr /\ result.objects = NilSlice)
        /\ (Answered /\ result.existed
                /\ inventoryKindName \notin DOMAIN store[result.key].data) =>
              (result.err = ErrMissingData /\ result.objects = NilSlice)
        /\ (Answered /\ result.existed
                /\ inventoryKindName \in DOMAIN store[result.key].data
                /\ store[result.key].data[inventoryKindName] \in InvalidBlobs) =>
              (result.err = ErrDecoding /\ result.objects = NilSlice)

\* C4's case: the record is there and its blob does not decode.
C4_Witness ==
    /\ StaleCall /\ result.existed /\ result.err = ErrDecoding
    /\ store[result.key].data[inventoryKindName] = <<>>

\* C5: Delete is idempotent -- a NotFound of the cluster is not returned, the
\* record is absent after a Delete that returns no error, and any other error
\* of the cluster is returned wrapped.
C5_DeleteIdempotent ==
    DeleteCall =>
        /\ Answered => (result.err = NoError /\ ~Exists(result.key))
        /\ ~Answered => (result.err = WrapDelete(result.clientErr)
                            /\ result.err # NoError
                            /\ Exists(result.key) = result.existed)

\* C5's case: a Delete of a record that the previous write already deleted.
C5_Witness ==
    /\ DeleteCall /\ ~result.existed /\ result.clientErr = ErrNotFound
    /\ lastWrite[result.key].kind = "delete"
    /\ result.err = NoError

\* C6: a Get of a record whose blob is present and is not a serialized entry
\* list returns the decoding error and leaves the entries passed in as they were.
C6_BadBlob ==
    (GetCall /\ Answered /\ result.existed
        /\ inventoryKindName \in DOMAIN store[result.key].data
        /\ store[result.key].data[inventoryKindName] \in InvalidBlobs) =>
            /\ result.err = ErrDecoding
            /\ result.inv.Entries = result.arg.Entries

\* C6's case: entries were passed in, and the blob is a truncated list.
C6_Witness ==
    /\ GetCall /\ result.err = ErrDecoding
    /\ Len(result.arg.Entries.elems) = 1
    /\ store[result.key].data[inventoryKindName] = <<"[">>

\* C7: Get returns NotFound only when no record exists and MissingData only
\* when the record exists without the "inventory" key; and whenever the cluster
\* answers the read, no record gives NotFound and a record without the key
\* gives MissingData (a record with the key, whatever its value, does not).
C7_ErrorByRecordState ==
    GetCall =>
        LET hasKey == result.existed /\ inventoryKindName \in DOMAIN store[result.key].data
        IN  /\ result.err = ErrNotFound => ~result.existed
            /\ result.err = ErrMissingData => (result.existed /\ ~hasKey)
            /\ Answered => /\ ~result.existed => result.err = ErrNotFound
                           /\ (result.existed /\ ~hasKey) => result.err = ErrMissingData

\* C7's case: the key is present with an empty value; the error is the decoder's.
C7_Witness ==
    /\ GetCall /\ result.existed /\ Answered
    /\ store[result.key].data = [k \in {inventoryKindName} |-> <<>>]
    /\ result.err \notin {NoError, ErrNotFound, ErrMissingData}

\* C8: whenever Get returns an error, the inventory passed in is unchanged in
\* entries, source and revision.
C8_ErrorLeavesInventory ==
    (GetCall /\ result.err # NoError) =>
        /\ result.inv.Entries = result.arg.Entries
        /\ result.inv.Source = result.arg.Source
        /\ result.inv.Revision = result.arg.Revision

\* C8's case: a used inventory, a record that has annotations and no blob key.
C8_Witness ==
    /\ GetCall /\ result.err = ErrMissingData
    /\ ~Fresh(result.arg)
    /\ {SourceKey, RevisionKey} \subseteq DOMAIN store[result.key].annotations

\* C9: on a successful Get, source and revision are those of the record's
\* annotations where the key is present and are left as passed in where it is
\* absent; the entries are those the blob encodes.
C9_MetadataFrame ==
    (GetCall /\ result.err = NoError) =>
        LET cm == store[result.key]
        IN  /\ result.inv.Source = IF SourceKey \in DOMAIN cm.annotations
                                   THEN cm.annotations[SourceKey] ELSE result.arg.Source
            /\ result.inv.Revision = IF RevisionKey \in DOMAIN cm.annotations
                                     THEN cm.annotations[RevisionKey] ELSE result.arg.Revision
            /\ Marshal(result.inv.Entries).data = cm.data[inventoryKindName]

\* C9's case: the source key is absent and the source passed in is kept, the
\* revision key is present and the revision is overwritten, the entries replaced.
C9_Witness ==
    /\ GetCall /\ result.err = NoError
    /\ SourceKey \notin DOMAIN store[result.key].annotations
    /\ result.arg.Source = "s0" /\ result.inv.Source = "s0"
    /\ result.arg.Revision = "" /\ result.inv.Revision = "r1"
    /\ result.inv.Entries # result.arg.Entries

\* C10: the record of a key exists iff the last successful write on it was an
\* Apply, and then its blob decodes to the entries of that Apply and its
\* last-applied-time is the time of that Apply.
C10_LatestWrite ==
    \A key \in ObjectKeys :
        LET w == lastWrite[key]
        IN  /\ w.kind \in {"none", "delete"} => ~Exists(key)
            /\ w.kind = "apply" =>
                  /\ Exists(key)
                  /\ inventoryKindName \in DOMAIN store[key].data
                  /\ Unmarshal(store[key].data[inventoryKindName])
                        = [err |-> NoError, entries |-> w.inv.Entries]
                  /\ TimeKey(Owner) \in DOMAIN store[key].annotations
                  /\ store[key].annotations[TimeKey(Owner)] = w.time

\* C10's case: an Apply onto an existing record, at a later time, of an
\* inventory with a nil entry list and no source.
C10_Witness ==
    /\ ApplyCall /\ result.existed /\ result.err = NoError
    /\ lastWrite[result.key].inv.Entries.isNil
    /\ lastWrite[result.key].inv.Source = ""
    /\ lastWrite[result.key].time = RFC3339(1)

\* the fields of the ConfigMap that ApplyInventory(i) by owner m sets
AppliedFields(m, i) ==
    {<<"labels", k>> : k \in {"app.kubernetes.io/name", "app.kubernetes.io/component",
                              "app.kubernetes.io/created-by"}}
        \cup {<<"data", inventoryKindName>>, <<"annotations", TimeKey(m)>>}
        \cup (IF i.Source # "" THEN {<<"annotations", m.Group \o "/source">>} ELSE {})
        \cup (IF i.Revision # "" THEN {<<"annotations", m.Group \o "/revision">>} ELSE {})

\* C11: a successful Apply by one field owner onto an existing record leaves
\* every field that another manager owns and that this Apply does not set as
\* it was, value and ownership.
C11_OtherOwnersFieldsKept ==
    [][(result'.op = "ApplyInventory" /\ result'.err = NoError /\ result'.existed) =>
          LET m == result'.owner
              old == store[result'.key]
              new == store'[result'.key]
              set == AppliedFields(m, lastWrite'[result'.key].inv)
          IN  \A f \in FieldManagers \ {m.Field} :
                  \A p \in old.managedFields[f] \ set :
                      SameField(old, new, p) /\ p \in new.managedFields[f]]_vars

\* C11's case: Owner applied an inventory without a source onto a record whose
\* source annotation, under the same group, is owned by another owner alone.
C11_Witness ==
    /\ ApplyCall /\ result.err = NoError /\ result.existed /\ result.owner = Owner
    /\ lastWrite[result.key].inv.Source = ""
    /\ \E m \in OtherOwners :
           /\ m.Group = Owner.Group
           /\ <<"annotations", SourceKey>> \in store[result.key].managedFields[m.Field]
           /\ <<"annotations", SourceKey>> \notin store[result.key].managedFields[Owner.Field]
           /\ store[result.key].annotations[SourceKey] = "s2"

\* C12: with rounds run one at a time, after every completed round the record
\* holds exactly the desired entries of that round, every id the record held
\* when the round began and the desired inventory lacks was returned as stale
\* in that round, and -- no call having failed so far -- the objects in the
\* cluster are exactly those the record tracks.
C12_RoundsConverge ==
    (recon.serial /\ recon.done # NoRound) =>
        LET d == recon.done.desired
            key == KeyOf(d)
        IN  /\ Exists(key) /\ inventoryKindName \in DOMAIN store[key].data
            /\ Unmarshal(store[key].data[inventoryKindName])
                  = [err |-> NoError, entries |-> d.Entries]
            /\ (recon.done.prev \ IdsOf(d.Entries)) \subseteq recon.done.stale
            /\ ~recon.failed => recon.live = IdsOf(d.Entries)

\* C12's case: a round that found two ids recorded, kept one and pruned the other.
C12_Witness ==
    /\ recon.serial /\ recon.done.who = "r2" /\ ~recon.failed
    /\ recon.done.prev = {"a", "b"}
    /\ recon.done.stale = {"a"}
    /\ recon.live = {"b"}
    /\ ApplyCall /\ result.err = NoError

\* C13: staleness goes by id alone -- no entry GetStaleObjects returns has an
\* id that appears in the desired inventory, whatever the versions recorded
\* and the source and revision of the two inventories.
C13_StaleByIdOnly ==
    (StaleCall /\ result.err = NoError) =>
        \A n \in 1..Len(result.objects.elems) :
            result.objects.elems[n].id \notin IdsOf(result.arg.Entries)

\* C13's case: the record holds b at version v1 and no source, the desired
\* inventory holds b at version v2 and a source, and nothing is stale.
C13_Witness ==
    /\ StaleCall /\ result.err = NoError /\ result.existed
    /\ Unmarshal(store[result.key].data[inventoryKindName]).entries
          = MakeSlice(<<[id |-> "b", ver |-> "v1"]>>)
    /\ SourceKey \notin DOMAIN store[result.key].annotations
    /\ [id |-> "b", ver |-> "v2"] \in AsSet(result.arg.Entries)
    /\ result.arg.Source = "s1"
    /\ result.objects = MakeSlice(<<>>)

\* C14 as stated: GetStaleObjects(A), answered by the cluster, of a record last
\* written by a successful Apply(A) returns no entry and no error -- for every A.
C14_SelfDiffEmpty_AsStated ==
    (StaleCall /\ Applied(result.key) /\ Answered
        /\ result.arg = lastWrite[result.key].inv) =>
            /\ result.err = NoError
            /\ result.objects.elems = <<>>

\* C14 amended: the same, for every A in which every entry's id is well
\* formed; when an id of A is malformed the call returns the error of Diff.
C14_SelfDiffEmpty ==
    (StaleCall /\ Applied(result.key) /\ Answered
        /\ result.arg = lastWrite[result.key].inv) =>
            IF ~Malformed(result.arg.Entries)
            THEN result.err = NoError /\ result.objects = MakeSlice(<<>>)
            ELSE result.err = ErrMalformedID /\ result.objects = NilSlice

\* C14's case: A holds two entries, and none is stale against itself.
C14_Witness ==
    /\ StaleCall /\ Applied(result.key) /\ result.err = NoError
    /\ result.arg = lastWrite[result.key].inv
    /\ Len(result.arg.Entries.elems) = 2

\* C15 as stated: GetStaleObjects of a desired inventory without entries,
\* answered by the cluster, of a record last written by a successful Apply(A)
\* returns, without error, every entry of A and no other -- for every A.
C15_AllStaleAgainstEmpty_AsStated ==
    (StaleCall /\ Applied(result.key) /\ Answered
        /\ Len(result.arg.Entries.elems) = 0) =>
            /\ result.err = NoError
            /\ AsSet(result.objects) = AsSet(lastWrite[result.key].inv.Entries)

\* C15 amended: the same, for every A in which every entry's id is well
\* formed; when an id of A is malformed the call returns the error of Diff.
C15_AllStaleAgainstEmpty ==
    (StaleCall /\ Applied(result.key) /\ Answered
        /\ Len(result.arg.Entries.elems) = 0) =>
            LET a == lastWrite[result.key].inv
            IN  IF ~Malformed(a.Entries)
                THEN /\ result.err = NoError
                     /\ AsSet(result.objects) = AsSet(a.Entries)
                     /\ Len(result.objects.elems) = Len(a.Entries.elems)
                ELSE result.err = ErrMalformedID /\ result.objects = NilSlice

\* C15's case: A holds two entries, the desired entry list is nil, both are stale.
C15_Witness ==
    /\ StaleCall /\ Applied(result.key) /\ result.err = NoError
    /\ result.arg.Entries.isNil
    /\ Len(lastWrite[result.key].inv.Entries.elems) = 2
    /\ Len(result.objects.elems) = 2

\* the entry lists that hold the entries of sl in some order
Reorderings(sl) ==
    {MakeSlice(s) : s \in {t \in EntrySeqs : Len(t) = Len(sl.elems) /\ Range(t) = AsSet(sl)}}

C17_FailedApplyNoEffect ==
    [][(result'.op = "ApplyInventory" /\ result'.err # NoError) =>
          /\ store' = store
          /\ lastWrite' = lastWrite
          /\ result'.clientErr # NoError => result'.err = result'.clientErr
          /\ result'.inv = result'.arg]_vars

\* C17's case: the write onto an existing record failed in transport.
C17_Witness ==
    /\ ApplyCall /\ result.existed /\ result.err \in TransportErrors
    /\ Exists(result.key) /\ Applied(result.key)

\* C18: with rounds run one at a time, no Apply drops from the record an id
\* that was not returned as stale; without that serialization a state is
\* reached in which one has (C18_Witness).
C18_SerializedNoLostUpdate ==
    recon.serial => recon.lost = {}

\* C18's case: two rounds interleaved with every call succeeding; the a that
\* one reconciler recorded was dropped by the other's Apply, was returned as
\* stale to neither, and its object is still in the cluster, untracked.
C18_Witness ==
    /\ ~recon.serial /\ ~recon.failed
    /\ ApplyCall /\ result.err = NoError
    /\ "a" \in recon.lost
    /\ "a" \in recon.live
    /\ "a" \notin PersistedIds(store, result.key)

\* what an annotation of the record must be for a source or revision value
MatchesAnnotation(ann, k, value) ==
    IF value = "" THEN k \notin DOMAIN ann
    ELSE k \in DOMAIN ann /\ ann[k] = value

\* C19: however the Applies of one field owner on a key follow one another,
\* a record last written by an Apply is wholly that Apply's -- its data is
\* the blob of that inventory's entries, and its source and revision
\* annotations are that inventory's, absent where that inventory's are empty.
C19_WholeApply ==
    \A key \in ObjectKeys :
        Applied(key) =>
            LET i == lastWrite[key].inv
                cm == store[key]
            IN  /\ cm.data = [k \in {inventoryKindName} |-> Marshal(i.Entries).data]
                /\ MatchesAnnotation(cm.annotations, Owner.Group \o "/source", i.Source)
                /\ MatchesAnnotation(cm.annotations, Owner.Group \o "/revision", i.Revision)

\* C19's case: an Apply, at a later time and onto an existing record, of an
\* inventory with entries and neither source nor revision.
C19_Witness ==
    /\ ApplyCall /\ result.existed /\ result.err = NoError
    /\ lastWrite[result.key].time = RFC3339(1)
    /\ lastWrite[result.key].inv.Source = ""
    /\ lastWrite[result.key].inv.Revision = ""
    /\ Len(lastWrite[result.key].inv.Entries.elems) = 1
    /\ DOMAIN store[result.key].annotations = {TimeKey(Owner)}

\* the records of every key but one
Elsewhere(st, key) == [k \in DOMAIN st \ {key} |-> st[k]]

\* C20: a call on a key leaves the records of every other key as they were;
\* Get and GetStaleObjects leave every record as it was; GetStaleObjects
\* leaves the desired inventory passed in as it was.
C20_KeyIsolation ==
    [][result'.op # "none" =>
          /\ Elsewhere(store', result'.key) = Elsewhere(store, result'.key)
          /\ result'.op \in {"GetInventory", "GetInventoryStaleObjects"} => store' = store
          /\ result'.op = "GetInventoryStaleObjects" => result'.inv = result'.arg]_vars

\* C20's case: the record of one key was deleted while the other key's record
\* stays.
C20_Witness ==
    /\ DeleteCall /\ result.existed /\ result.err = NoError
    /\ DOMAIN store = ObjectKeys \ {result.key}
    /\ \A key \in DOMAIN store : Applied(key)

\* C20's second case: stale objects were found against a record whose entries
\* and source differ from the desired ones, which are as they were passed in.
C20_StaleWitness ==
    /\ StaleCall /\ result.err = NoError /\ result.existed
    /\ Cardinality(DOMAIN store) = 2
    /\ Len(result.objects.elems) = 1
    /\ lastWrite[result.key].inv.Source # result.arg.Source
    /\ result.inv = result.arg

====
